---- MODULE Spec2Model ----
(***************************************************************************)
(* Crossword constraint solver of crossword/generate.py                    *)
(* (class CrosswordCreator): node consistency, AC-3, the two ordering      *)
(* heuristics and the backtracking search, as a state machine.             *)
(*                                                                         *)
(* Words are tuples of letters; character indices are 0-based as in the    *)
(* source, so word[k] of the source is word[k + 1] here.                   *)
(* Iteration over a Python set has no defined order: every loop over a set *)
(* whose order can influence the outcome draws its order with \E.          *)
(***************************************************************************)
EXTENDS Integers, Sequences, FiniteSets, TLC

\* ------------------------------------------------------------------ bounds
MaxVars == 3
MaxWords == 3
MaxCallWords == 2

\* ------------------------------------------------------ the puzzle model
ACROSS == "across"
DOWN == "down"

Rows == 0..2
Cols == 0..2

AAA == << "A", "A", "A" >>
ABA == << "A", "B", "A" >>
BBA == << "B", "B", "A" >>
BBB == << "B", "B", "B" >>

WordPool == { AAA, BBA, BBB, << "A", "B" >>, << "B", "A" >> }

\* Variable: a slot (i, j, direction, length) lying inside the grid.
Slots ==
    { v \in [i : Rows, j : Cols, direction : {ACROSS, DOWN}, length : 2..3] :
        IF v.direction = DOWN THEN v.i + v.length - 1 \in Rows
                              ELSE v.j + v.length - 1 \in Cols }

\* Variable.cells: the list of cells the slot covers.
cells(v) ==
    [k \in 1..v.length |->
        << v.i + (IF v.direction = DOWN THEN k - 1 ELSE 0),
           v.j + (IF v.direction = ACROSS THEN k - 1 ELSE 0) >>]

CellSet(v) == { cells(v)[k] : k \in 1..v.length }

\* The open cells of the structure that a set of slots covers.
StructureOf(S) == UNION { CellSet(v) : v \in S }

\* Crossword.__init__: the variables of a structure are its maximal
\* horizontal and vertical runs of open cells of length > 1.
VariablesOf(structure) ==
    { v \in Slots :
        /\ CellSet(v) \subseteq structure
        /\ IF v.direction = DOWN
           THEN /\ << v.i - 1, v.j >> \notin structure
                /\ << v.i + v.length, v.j >> \notin structure
           ELSE /\ << v.i, v.j - 1 >> \notin structure
                /\ << v.i, v.j + v.length >> \notin structure }

\* The slots the structures of the model are made of: the three rows and
\* the three columns of the grid, and one slot of length 2.
SlotPool ==
    { v \in Slots : (v.length = 3) \/ (v.direction = ACROSS /\ v.i = 0 /\ v.j = 0) }

\* The structures of the model: sets of at most MaxVars slots that are
\* exactly the variables of the cells they cover.
Structures ==
    { S \in SUBSET SlotPool :
        /\ Cardinality(S) <= MaxVars
        /\ VariablesOf(StructureOf(S)) = S }

WordLists == { W \in SUBSET WordPool : Cardinality(W) <= MaxWords }

\* The word lists on which the heuristics are called directly.
CallWordLists == { W \in SUBSET WordPool : Cardinality(W) <= MaxCallWords }

None == "None"

\* The value solve returns: None, or an assignment.
ReturnNone == [none |-> TRUE]
ReturnAssignment(a) == [none |-> FALSE, assignment |-> a]

VARIABLES
    variables,    \* crossword.variables
    words,        \* crossword.words
    domains,      \* self.domains
    assignment,   \* the dict shared by all backtrack frames
    stack,        \* backtrack frames, innermost first
    arcs_list,    \* the work queue of the running ac3
    revised,      \* value of the last revise call
    ac3ret,       \* value returned by the last ac3 call
    ac3caller,    \* who called the running ac3: "solve" or "backtrack"
    fullpass,     \* value of self.ac3() at line 93 of solve (discarded there)
    result,       \* value returned by solve
    pc

vars == << variables, words, domains, assignment, stack, arcs_list, revised,
           ac3ret, ac3caller, fullpass, result, pc >>

\* Crossword.__init__: the entry of the overlaps dict for v1 and v2: None,
\* or the 0-based index pair of the shared cell in v1 and in v2.
overlap_of(v1, v2) ==
    LET intersection == CellSet(v1) \cap CellSet(v2)
    IN  IF intersection = {} THEN None
        ELSE LET c == CHOOSE c \in intersection : TRUE
             IN  << (CHOOSE k \in 1..v1.length : cells(v1)[k] = c) - 1,
                    (CHOOSE k \in 1..v2.length : cells(v2)[k] = c) - 1 >>

\* Crossword.overlaps, the dict filled once by Crossword.__init__
\* (@@ with the empty function makes the table an explicit one).
overlaps_dict ==
    [p \in SlotPool \X SlotPool |-> overlap_of(p[1], p[2])] @@ << >>

\* Crossword.overlaps[v1, v2]
overlaps(v1, v2) == overlaps_dict[<< v1, v2 >>]

\* Crossword.neighbors(var)
neighbors(var) ==
    { v \in variables : v /= var /\ overlaps(v, var) /= None }

\* All orders in which a finite set can be iterated.
RECURSIVE Orders(_)
Orders(S) ==
    IF S = {} THEN { << >> }
    ELSE UNION { { << x >> \o p : p \in Orders(S \ {x}) } : x \in S }

\* The list s in ascending order of the keys, equal keys keeping their
\* order; keys[k] is the key of s[k].
sorted_list(s, keys) ==
    LET n == Len(s)
        rank(a) == 1 + Cardinality({ b \in 1..n :
                        keys[b] < keys[a] \/ (keys[b] = keys[a] /\ b < a) })
    IN  [p \in 1..n |-> s[CHOOSE a \in 1..n : rank(a) = p]] \o << >>

\* Python's sorted(): stable, ascending by key; key[k] is the key of s[k].
\* (Concatenating with the empty sequence turns a function into a tuple;
\* the list and its keys are bound as values, so that they are computed
\* once per call.)
sorted(s, key) ==
    CHOOSE r \in { sorted_list(sv, kv) : sv \in {s}, kv \in {key \o << >>} } : TRUE

Init ==
    /\ variables \in Structures
    /\ words \in WordLists
    /\ domains = [v \in variables |-> words]
    /\ assignment = << >>
    /\ stack = << >>
    /\ arcs_list = << >>
    /\ revised = FALSE
    /\ ac3ret = None
    /\ ac3caller = None
    /\ fullpass = None
    /\ result = ReturnNone
    /\ pc = "solve"

\* The scenario of two slots X and Y of length 3 that cross at index 1 of
\* both, with the word list {AAA, ABA, BBB} or a part of it.
SlotX == [i |-> 1, j |-> 0, direction |-> ACROSS, length |-> 3]
SlotY == [i |-> 0, j |-> 1, direction |-> DOWN, length |-> 3]

InitCross ==
    /\ variables = { SlotX, SlotY }
    /\ words \in SUBSET { AAA, ABA, BBB }
    /\ domains = [v \in variables |-> words]
    /\ assignment = << >>
    /\ stack = << >>
    /\ arcs_list = << >>
    /\ revised = FALSE
    /\ ac3ret = None
    /\ ac3caller = None
    /\ fullpass = None
    /\ result = ReturnNone
    /\ pc = "solve"

\* enforce_node_consistency
NodeConsistent(d) ==
    [var \in variables |-> { word \in d[var] : Len(word) = var.length }]

\* solve, line 92
SolveNodeConsistency ==
    /\ pc = "solve"
    /\ domains' = NodeConsistent(domains)
    /\ pc' = "ac3_call"
    /\ UNCHANGED << variables, words, assignment, stack, arcs_list, revised,
                    ac3ret, ac3caller, fullpass, result >>

\* ------------------------------------------------------------- revise
\* revise with a test that asks every word of y to agree.
supported_all(word, y_words, x_char_index, y_char_index) ==
    \A word_y \in y_words :
        word[x_char_index + 1] = word_y[y_char_index + 1]

\* revise, lines 131-135: some word of y's domain has the character of
\* `word` at the intersection.
supported(word, y_words, x_char_index, y_char_index) ==
    \E word_y \in y_words :
        word[x_char_index + 1] = word_y[y_char_index + 1]

\* The loop of revise over the words of domains[x] (lines 130-140):
\* returns the pair (new_words, revised).
RECURSIVE revise_loop(_, _, _, _, _, _)
revise_loop(x_words, y_words, x_char_index, y_char_index, new_words, rev) ==
    IF x_words = {} THEN [new_words |-> new_words, revised |-> rev]
    ELSE LET word == CHOOSE w \in x_words : TRUE
             is_consistent == supported(word, y_words, x_char_index, y_char_index)
         IN  IF is_consistent
             THEN revise_loop(x_words \ {word}, y_words, x_char_index,
                              y_char_index, new_words \cup {word}, rev)
             ELSE revise_loop(x_words \ {word}, y_words, x_char_index,
                              y_char_index, new_words, TRUE)

\* revise with the two indices of the overlap exchanged.
revise_swapped(d, x, y) ==
    IF overlaps(x, y) = None
    THEN [domains |-> d, revised |-> FALSE]
    ELSE LET r == revise_loop(d[x], d[y], overlaps(x, y)[2],
                              overlaps(x, y)[1], {}, FALSE)
         IN  [domains |-> [d EXCEPT ![x] = r.new_words],
              revised |-> r.revised]

\* revise keeping, for every supported word, the word of y that agrees
\* with it instead of the word itself.
revise_keeps_word_y(d, x, y) ==
    IF overlaps(x, y) = None
    THEN [domains |-> d, revised |-> FALSE]
    ELSE LET r == revise_loop(d[x], d[y], overlaps(x, y)[1],
                              overlaps(x, y)[2], {}, FALSE)
             kept == { word_y \in d[y] :
                         \E word \in d[x] :
                            word[overlaps(x, y)[1] + 1]
                               = word_y[overlaps(x, y)[2] + 1] }
         IN  [domains |-> [d EXCEPT ![x] = kept],
              revised |-> r.revised]

\* revise returning True whether or not it removed a word.
revise_always_revised(d, x, y) ==
    IF overlaps(x, y) = None
    THEN [domains |-> d, revised |-> TRUE]
    ELSE LET r == revise_loop(d[x], d[y], overlaps(x, y)[1],
                              overlaps(x, y)[2], {}, FALSE)
         IN  [domains |-> [d EXCEPT ![x] = r.new_words],
              revised |-> TRUE]

\* revise reading, for an assigned y, the assigned word in place of
\* domains[y].
revise_assigned(d, x, y) ==
    IF overlaps(x, y) = None
    THEN [domains |-> d, revised |-> FALSE]
    ELSE LET y_words == IF y \in DOMAIN assignment THEN { assignment[y] }
                                                   ELSE d[y]
             r == revise_loop(d[x], y_words, overlaps(x, y)[1],
                              overlaps(x, y)[2], {}, FALSE)
         IN  [domains |-> [d EXCEPT ![x] = r.new_words],
              revised |-> r.revised]

\* revise(x, y) on the domains d: the domains afterwards and the value
\* returned.
revise(d, x, y) ==
    IF overlaps(x, y) = None
    THEN [domains |-> d, revised |-> FALSE]
    ELSE LET r == revise_loop(d[x], d[y], overlaps(x, y)[1],
                              overlaps(x, y)[2], {}, FALSE)
         IN  [domains |-> [d EXCEPT ![x] = r.new_words],
              revised |-> r.revised]

\* ---------------------------------------------------------------- ac3
\* ac3, lines 157-160: the list of all arcs, in the insertion order of the
\* overlaps dict, which Crossword.__init__ fills by two nested loops over
\* the set of variables.
AllArcs(order) ==
    LET n == Len(order)
        pairs == [k \in 1..(n * n) |->
                     << order[((k - 1) \div n) + 1], order[((k - 1) % n) + 1] >>]
    IN  SelectSeq(pairs, LAMBDA a : a[1] /= a[2])

\* ac3 re-enqueueing the arcs (x, z) instead of (z, x).
requeue_reversed(arc, zs) ==
    [k \in 1..Len(zs) |-> << arc[1], zs[k] >>]

\* ac3, lines 168-170: the arcs (z, x) appended after x = arc[0] shrank;
\* zs lists the neighbours of x other than arc[1].
requeue(arc, zs) ==
    [k \in 1..Len(zs) |-> << zs[k], arc[1] >>]

\* solve, line 93: call ac3() with no arcs; ac3 lines 154-160.
Ac3Full ==
    /\ pc = "ac3_call"
    /\ \E order \in Orders(variables) : arcs_list' = AllArcs(order)
    /\ ac3caller' = "solve"
    /\ pc' = "ac3_loop"
    /\ UNCHANGED << variables, words, domains, assignment, stack, revised,
                    ac3ret, fullpass, result >>

\* ac3, one iteration of the while loop (lines 162-170).
Ac3Revise ==
    /\ pc = "ac3_loop"
    /\ Len(arcs_list) /= 0
    /\ LET arc == Head(arcs_list)
           r == revise(domains, arc[1], arc[2])
           others == neighbors(arc[1]) \ {arc[2]}
       IN  /\ domains' = r.domains
           /\ revised' = r.revised
           /\ IF r.revised
              THEN IF Cardinality(r.domains[arc[1]]) = 0
                   THEN /\ ac3ret' = "False"
                        /\ pc' = "ac3_done"
                        /\ arcs_list' = Tail(arcs_list)
                   ELSE /\ \E zs \in Orders(others) :
                              arcs_list' = Tail(arcs_list) \o requeue(arc, zs)
                        /\ UNCHANGED << ac3ret, pc >>
              ELSE /\ arcs_list' = Tail(arcs_list)
                   /\ UNCHANGED << ac3ret, pc >>
    /\ UNCHANGED << variables, words, assignment, stack, ac3caller,
                    fullpass, result >>

\* ac3, line 171: the queue is empty.
Ac3ReturnTrue ==
    /\ pc = "ac3_loop"
    /\ Len(arcs_list) = 0
    /\ ac3ret' = "True"
    /\ pc' = "ac3_done"
    /\ UNCHANGED << variables, words, domains, assignment, stack, arcs_list,
                    revised, ac3caller, fullpass, result >>

\* solve, lines 93-94: the value of ac3() is dropped and backtrack(dict())
\* is called.
SolveBacktrack ==
    /\ pc = "ac3_done"
    /\ ac3caller = "solve"
    /\ fullpass' = ac3ret
    /\ assignment' = << >>
    /\ pc' = "bt_enter"
    /\ UNCHANGED << variables, words, domains, stack, arcs_list, revised,
                    ac3ret, ac3caller, result >>

\* ------------------------------------------------ checks on assignments
\* assignment_complete(assignment)
assignment_complete(a) ==
    \A var \in variables : ~ (var \notin DOMAIN a \/ Len(a[var]) <= 0)

\* consistent(assignment) without the check that the values are distinct.
consistent_nodistinct(a) ==
    \A var \in DOMAIN a :
       /\ ~ (Len(a[var]) /= var.length)
       /\ \A neighbor \in neighbors(var) :
             ~ ( /\ neighbor \in DOMAIN a
                 /\ a[var][overlaps(var, neighbor)[1] + 1]
                      /= a[neighbor][overlaps(var, neighbor)[2] + 1] )

\* consistent(assignment) without the check of the overlaps.
consistent_nooverlap(a) ==
    /\ \A var \in DOMAIN a : ~ (Len(a[var]) /= var.length)
    /\ ~ (Cardinality(DOMAIN a) /= Cardinality({ a[var] : var \in DOMAIN a }))

\* consistent(assignment)
consistent(a) ==
    /\ \A var \in DOMAIN a :
          /\ ~ (Len(a[var]) /= var.length)
          /\ \A neighbor \in neighbors(var) :
                ~ ( /\ neighbor \in DOMAIN a
                    /\ a[var][overlaps(var, neighbor)[1] + 1]
                         /= a[neighbor][overlaps(var, neighbor)[2] + 1] )
    /\ ~ (Cardinality(DOMAIN a) /= Cardinality({ a[var] : var \in DOMAIN a }))

\* ----------------------------------------------------------- heuristics
\* vals_ruled_out counting the assigned neighbours as well.
RECURSIVE vals_ruled_out_all(_, _, _, _, _)
vals_ruled_out_all(d, a, var, word, ns) ==
    IF ns = {} THEN 0
    ELSE LET neighbor == CHOOSE n \in ns : TRUE
             overlap == overlaps(var, neighbor)
             here == Cardinality({ n_word \in d[neighbor] :
                         word[overlap[1] + 1] /= n_word[overlap[2] + 1] })
         IN  here + vals_ruled_out_all(d, a, var, word, ns \ {neighbor})

\* order_domain_values, lines 219-225: the values of the neighbours' domains
\* that `word` rules out, summed over the neighbours in `ns`.
RECURSIVE vals_ruled_out(_, _, _, _, _)
vals_ruled_out(d, a, var, word, ns) ==
    IF ns = {} THEN 0
    ELSE LET neighbor == CHOOSE n \in ns : TRUE
             overlap == overlaps(var, neighbor)
             here == IF neighbor \notin DOMAIN a
                     THEN Cardinality({ n_word \in d[neighbor] :
                              word[overlap[1] + 1] /= n_word[overlap[2] + 1] })
                     ELSE 0
         IN  here + vals_ruled_out(d, a, var, word, ns \ {neighbor})

\* order_domain_values(var, assignment); `iter` is the order in which the
\* set domains[var] is iterated, that is the insertion order of `changes`.
order_domain_values(d, a, var, iter) ==
    LET changes == [k \in 1..Len(iter) |->
                       vals_ruled_out(d, a, var, iter[k], neighbors(var))]
    IN  sorted(iter, changes)

\* select_unassigned_variable preferring the largest domain.
select_largest_domain(d, a, order) ==
    LET unassigned == SelectSeq(order, LAMBDA var : var \notin DOMAIN a)
        sorted_vars == sorted(unassigned,
                          [k \in 1..Len(unassigned) |-> 0 - Cardinality(d[unassigned[k]])])
        tied_vars == SelectSeq(sorted_vars,
                        LAMBDA var : Cardinality(d[var]) = Cardinality(d[sorted_vars[1]]))
        final_sort == sorted(tied_vars,
                         [k \in 1..Len(tied_vars) |-> Cardinality(neighbors(tied_vars[k]))])
    IN  IF Len(tied_vars) = 1 THEN tied_vars[1] ELSE final_sort[1]

\* select_unassigned_variable(assignment); `order` is the order in which
\* the set crossword.variables is iterated.
select_unassigned_variable(d, a, order) ==
    LET unassigned == SelectSeq(order, LAMBDA var : var \notin DOMAIN a)
        sorted_vars == sorted(unassigned,
                          [k \in 1..Len(unassigned) |-> Cardinality(d[unassigned[k]])])
        tied_vars == SelectSeq(sorted_vars,
                        LAMBDA var : Cardinality(d[var]) = Cardinality(d[sorted_vars[1]]))
        final_sort == sorted(tied_vars,
                         [k \in 1..Len(tied_vars) |-> Cardinality(neighbors(tied_vars[k]))])
    IN  IF Len(tied_vars) = 1 THEN tied_vars[1] ELSE final_sort[1]

\* ------------------------------------------------------------ backtrack
\* del assignment[var]
Del(a, var) == [v \in (DOMAIN a) \ {var} |-> a[v]]

\* backtrack, lines 272-273: the assignment is complete; it is returned
\* through every enclosing call (line 291) and by solve.
BtComplete ==
    /\ pc = "bt_enter"
    /\ assignment_complete(assignment)
    /\ result' = ReturnAssignment(assignment)
    /\ stack' = << >>
    /\ pc' = "done"
    /\ UNCHANGED << variables, words, domains, assignment, arcs_list, revised,
                    ac3ret, ac3caller, fullpass >>

\* backtrack, lines 274-276: choose the variable and the list of values the
\* loop of this call runs over.  The frame also records the assignment and
\* the domains the call was entered with (history, read by no action).
BtSelect ==
    /\ pc = "bt_enter"
    /\ ~ assignment_complete(assignment)
    /\ \E var \in { select_unassigned_variable(domains, assignment, order) :
                        order \in Orders(variables) } :
          \E vals \in { order_domain_values(domains, assignment, var, iter) :
                           iter \in Orders(domains[var]) } :
             stack' = << [var |-> var, vals |-> vals, k |-> 0,
                          entry_assignment |-> assignment,
                          entry_domains |-> domains] >> \o stack
    /\ pc' = "bt_loop"
    /\ UNCHANGED << variables, words, domains, assignment, arcs_list, revised,
                    ac3ret, ac3caller, fullpass, result >>

\* backtrack, lines 276-277: the next value of the loop is assigned.
BtAssign ==
    /\ pc = "bt_loop"
    /\ Head(stack).k < Len(Head(stack).vals)
    /\ LET f == Head(stack)
       IN  /\ assignment' = (f.var :> f.vals[f.k + 1]) @@ assignment
           /\ stack' = << [f EXCEPT !.k = f.k + 1] >> \o Tail(stack)
    /\ pc' = "bt_check"
    /\ UNCHANGED << variables, words, domains, arcs_list, revised, ac3ret,
                    ac3caller, fullpass, result >>

\* backtrack, lines 278-284: the assignment is consistent; ac3 is called
\* with the arcs (neighbor, var).
BtPropagate ==
    /\ pc = "bt_check"
    /\ consistent(assignment)
    /\ \E ns \in Orders(neighbors(Head(stack).var)) :
          arcs_list' = [k \in 1..Len(ns) |-> << ns[k], Head(stack).var >>]
    /\ ac3caller' = "backtrack"
    /\ pc' = "ac3_loop"
    /\ UNCHANGED << variables, words, domains, assignment, stack, revised,
                    ac3ret, fullpass, result >>

\* backtrack, lines 292-293: the assignment is not consistent.
BtReject ==
    /\ pc = "bt_check"
    /\ ~ consistent(assignment)
    /\ assignment' = Del(assignment, Head(stack).var)
    /\ pc' = "bt_loop"
    /\ UNCHANGED << variables, words, domains, stack, arcs_list, revised,
                    ac3ret, ac3caller, fullpass, result >>

\* A call of backtrack returns None to its caller: to the loop of the
\* enclosing call (line 289-290), or to solve.
BtReturnNone ==
    /\ stack' = Tail(stack)
    /\ IF Tail(stack) = << >>
       THEN result' = ReturnNone /\ pc' = "done"
       ELSE result' = result /\ pc' = "bt_loop"

\* backtrack, lines 284-289: ac3 has returned; its value is compared with
\* None, and otherwise backtrack is called on the extended assignment.
BtAfterAc3 ==
    /\ pc = "ac3_done"
    /\ ac3caller = "backtrack"
    /\ IF ac3ret = None
       THEN /\ assignment' = Del(assignment, Head(stack).var)
            /\ BtReturnNone
       ELSE /\ pc' = "bt_enter"
            /\ UNCHANGED << assignment, stack, result >>
    /\ UNCHANGED << variables, words, domains, arcs_list, revised, ac3ret,
                    ac3caller, fullpass >>

\* backtrack, line 294: the loop has run out of values.
BtExhausted ==
    /\ pc = "bt_loop"
    /\ Head(stack).k = Len(Head(stack).vals)
    /\ BtReturnNone
    /\ UNCHANGED << variables, words, domains, assignment, arcs_list, revised,
                    ac3ret, ac3caller, fullpass >>

\* ------------------------------------------- direct calls of the heuristics
\* The two heuristics are called directly on any node-consistent domains and
\* any set of assigned variables.  Neither of them reads the words that the
\* assignment holds, only which variables it holds, so every assigned
\* variable gets one fixed word.
DomainStores ==
    [variables -> SUBSET words] \cap
    { d \in [variables -> SUBSET words] : d = NodeConsistent(d) }

PartialAssignments ==
    IF words = {} THEN { << >> }
    ELSE { [v \in S |-> CHOOSE w \in words : TRUE] : S \in SUBSET variables }

InitCalls ==
    /\ variables \in Structures
    /\ words \in CallWordLists
    /\ domains \in DomainStores
    /\ assignment \in PartialAssignments
    /\ stack = << >>
    /\ arcs_list = << >>
    /\ revised = FALSE
    /\ ac3ret = None
    /\ ac3caller = None
    /\ fullpass = None
    /\ result = ReturnNone
    /\ pc = "call"

\* A call of order_domain_values(var, assignment); its value is kept in vals.
CallOrderDomainValues ==
    /\ pc = "call"
    /\ \E var \in variables :
          \E vals \in { order_domain_values(domains, assignment, var, iter) :
                           iter \in Orders(domains[var]) } :
             stack' = << [var |-> var, vals |-> vals, k |-> 0] >>
    /\ pc' = "ordered"
    /\ UNCHANGED << variables, words, domains, assignment, arcs_list, revised,
                    ac3ret, ac3caller, fullpass, result >>

\* A call of select_unassigned_variable(assignment) with some variable
\* unassigned; its value is kept in var.
CallSelectUnassignedVariable ==
    /\ pc = "call"
    /\ variables \ DOMAIN assignment /= {}
    /\ \E var \in { select_unassigned_variable(domains, assignment, order) :
                        order \in Orders(variables) } :
          stack' = << [var |-> var, vals |-> << >>, k |-> 0] >>
    /\ pc' = "selected"
    /\ UNCHANGED << variables, words, domains, assignment, arcs_list, revised,
                    ac3ret, ac3caller, fullpass, result >>

NextCalls ==
    \/ CallOrderDomainValues
    \/ CallSelectUnassignedVariable

SpecCalls == InitCalls /\ [][NextCalls]_vars

\* ----------------------------------------------- direct calls of the methods
\* After construction the public methods are called one after another, in
\* any order.  revise, ac3 and backtrack index the words by the overlap
\* (lines 133, 200, 224) and are called on node-consistent domains only.
InitMethods ==
    /\ variables \in Structures
    /\ words \in CallWordLists
    /\ domains = [v \in variables |-> words]
    /\ assignment = << >>
    /\ stack = << >>
    /\ arcs_list = << >>
    /\ revised = FALSE
    /\ ac3ret = None
    /\ ac3caller = None
    /\ fullpass = None
    /\ result = ReturnNone
    /\ pc = "idle"

\* A call of enforce_node_consistency().
CallEnforceNodeConsistency ==
    /\ pc = "idle"
    /\ domains' = NodeConsistent(domains)
    /\ UNCHANGED << variables, words, assignment, stack, arcs_list, revised,
                    ac3ret, ac3caller, fullpass, result, pc >>

\* A call of revise(x, y).
CallRevise ==
    /\ pc = "idle"
    /\ domains = NodeConsistent(domains)
    /\ \E x, y \in variables :
          /\ x /= y
          /\ domains' = revise(domains, x, y).domains
          /\ revised' = revise(domains, x, y).revised
    /\ UNCHANGED << variables, words, assignment, stack, arcs_list, ac3ret,
                    ac3caller, fullpass, result, pc >>

\* A call of ac3() with no arcs; ac3 lines 154-160.
CallAc3 ==
    /\ pc = "idle"
    /\ domains = NodeConsistent(domains)
    /\ \E order \in Orders(variables) : arcs_list' = AllArcs(order)
    /\ ac3caller' = "call"
    /\ pc' = "ac3_loop"
    /\ UNCHANGED << variables, words, domains, assignment, stack, revised,
                    ac3ret, fullpass, result >>

\* A call of backtrack(dict()).
CallBacktrack ==
    /\ pc = "idle"
    /\ domains = NodeConsistent(domains)
    /\ assignment' = << >>
    /\ pc' = "bt_enter"
    /\ UNCHANGED << variables, words, domains, stack, arcs_list, revised,
                    ac3ret, ac3caller, fullpass, result >>

\* The call of ac3 or of backtrack has returned; its value and the dict
\* it was given are dropped.
CallReturned ==
    /\ \/ pc = "done"
       \/ pc = "ac3_done" /\ ac3caller = "call"
    /\ assignment' = << >>
    /\ revised' = FALSE
    /\ ac3ret' = None
    /\ ac3caller' = None
    /\ result' = ReturnNone
    /\ pc' = "idle"
    /\ UNCHANGED << variables, words, domains, stack, arcs_list, fullpass >>

NextMethods ==
    \/ CallEnforceNodeConsistency
    \/ CallRevise
    \/ CallAc3
    \/ CallBacktrack
    \/ CallReturned
    \/ Ac3Revise
    \/ Ac3ReturnTrue
    \/ BtComplete
    \/ BtSelect
    \/ BtAssign
    \/ BtPropagate
    \/ BtReject
    \/ BtAfterAc3
    \/ BtExhausted

SpecMethods == InitMethods /\ [][NextMethods]_vars

\* ------------------------------------------------------------ properties
\* What the puzzle asks of a complete assignment s: every word has the
\* length of its variable, overlapping variables agree on the shared cell,
\* and the words are pairwise distinct.
Valid(s) ==
    /\ \A v \in variables : Len(s[v]) = v.length
    /\ \A v1, v2 \in variables :
          (v1 /= v2 /\ overlaps(v1, v2) /= None)
             => s[v1][overlaps(v1, v2)[1] + 1] = s[v2][overlaps(v1, v2)[2] + 1]
    /\ \A v1, v2 \in variables : v1 /= v2 => s[v1] /= s[v2]

\* The solutions of the puzzle over the original word list.
Solutions == { s \in [variables -> words] : Valid(s) }

\* C1: an assignment returned by solve is complete, matches the lengths,
\* agrees on every overlap and uses pairwise distinct words.
C1_SolveReturnsSolution ==
    (pc = "done" /\ ~ result.none)
       => /\ DOMAIN result.assignment = variables
          /\ result.assignment \in [variables -> words]
          /\ Valid(result.assignment)

C1_Witness ==
    /\ pc = "done"
    /\ ~ result.none
    /\ \E v1, v2 \in variables : v1 /= v2 /\ overlaps(v1, v2) /= None

\* C2: solve returns None only when the puzzle has no solution.
C2_NoneOnlyIfUnsolvable ==
    (pc = "done" /\ Solutions /= {}) => ~ result.none

CrossScenario ==
    /\ variables = { SlotX, SlotY }
    /\ overlaps(SlotX, SlotY) = << 1, 1 >>
    /\ words = { AAA, ABA, BBB }

\* C3 as stated: in the scenario solve returns two distinct words that agree
\* at index 1, and BBB is not one of them.
C3_BBBNeverReturned ==
    (CrossScenario /\ pc = "done")
       => /\ ~ result.none
          /\ DOMAIN result.assignment = { SlotX, SlotY }
          /\ result.assignment[SlotX] /= result.assignment[SlotY]
          /\ result.assignment[SlotX][2] = result.assignment[SlotY][2]
          /\ BBB \notin { result.assignment[SlotX], result.assignment[SlotY] }

\* C3 amended: in the scenario solve returns two distinct words that agree
\* at index 1; they are ABA and BBB, in either order, AAA is never returned.
C3_ReturnsABAandBBB ==
    (CrossScenario /\ pc = "done")
       => /\ ~ result.none
          /\ DOMAIN result.assignment = { SlotX, SlotY }
          /\ result.assignment[SlotX] /= result.assignment[SlotY]
          /\ result.assignment[SlotX][2] = result.assignment[SlotY][2]
          /\ { result.assignment[SlotX], result.assignment[SlotY] } = { ABA, BBB }

C3_Witness ==
    /\ CrossScenario
    /\ pc = "done"
    /\ ~ result.none
    /\ result.assignment[SlotX] = BBB

\* The unassigned variables, and the states in which a direct call of a
\* heuristic has returned.
Unassigned == variables \ DOMAIN assignment
Selected == pc = "selected"
Ordered == pc = "ordered"

\* C4: select_unassigned_variable returns an unassigned variable of minimum
\* domain size that has the most neighbours among the unassigned variables
\* of that domain size.
C4_SelectsMrvHighestDegree ==
    Selected
       => LET v == Head(stack).var
          IN  /\ v \in Unassigned
              /\ \A u \in Unassigned :
                    Cardinality(domains[v]) <= Cardinality(domains[u])
              /\ \A u \in Unassigned :
                    Cardinality(domains[u]) = Cardinality(domains[v])
                       => Cardinality(neighbors(u)) <= Cardinality(neighbors(v))

\* The elimination count of word w for variable var: the pairs (n, nw) of
\* an unassigned neighbour n and a word nw of its domain that differs from
\* w on the shared cell.
Eliminated(var, w) ==
    Cardinality({ p \in (neighbors(var) \ DOMAIN assignment) \X words :
                    /\ p[2] \in domains[p[1]]
                    /\ w[overlaps(var, p[1])[1] + 1]
                          /= p[2][overlaps(var, p[1])[2] + 1] })

\* C5: order_domain_values returns every word of domains[var] exactly once,
\* in non-decreasing order of the elimination count.
C5_ValuesOrderedByElimination ==
    Ordered
       => LET f == Head(stack)
          IN  /\ { f.vals[k] : k \in 1..Len(f.vals) } = domains[f.var]
              /\ Len(f.vals) = Cardinality(domains[f.var])
              /\ \A a, b \in 1..Len(f.vals) :
                    a < b => Eliminated(f.var, f.vals[a]) <= Eliminated(f.var, f.vals[b])

\* The elimination count of w if the assigned neighbours were counted too.
EliminatedAll(var, w) ==
    Cardinality({ p \in neighbors(var) \X words :
                    /\ p[2] \in domains[p[1]]
                    /\ w[overlaps(var, p[1])[1] + 1]
                          /= p[2][overlaps(var, p[1])[2] + 1] })

\* A value is ranked strictly before another by the unassigned neighbours,
\* while counting the assigned neighbours too would not rank it before.
C5_Witness ==
    /\ Ordered
    /\ \E a, b \in 1..Len(Head(stack).vals) :
          /\ a < b
          /\ Eliminated(Head(stack).var, Head(stack).vals[a])
                < Eliminated(Head(stack).var, Head(stack).vals[b])
          /\ EliminatedAll(Head(stack).var, Head(stack).vals[a])
                >= EliminatedAll(Head(stack).var, Head(stack).vals[b])

\* The words of domains[x] that some word of domains[y] agrees with on the
\* cell x and y share.
SupportedWords(x, y) ==
    { w \in domains[x] :
        \E wy \in domains[y] :
            w[overlaps(x, y)[1] + 1] = wy[overlaps(x, y)[2] + 1] }

\* C6: revise(x, y) changes nothing and returns False when x and y do not
\* overlap; otherwise it leaves in domains[x] exactly the supported words,
\* changes no other domain, and returns True iff a word was removed.
C6_ReviseKeepsSupported ==
    [][ (pc = "ac3_loop" /\ Len(arcs_list) /= 0)
          => LET x == Head(arcs_list)[1]
                 y == Head(arcs_list)[2]
             IN  IF overlaps(x, y) = None
                 THEN domains' = domains /\ revised' = FALSE
                 ELSE /\ domains'[x] = SupportedWords(x, y)
                      /\ \A v \in variables \ {x} : domains'[v] = domains[v]
                      /\ revised' = (domains'[x] /= domains[x]) ]_vars

\* A revise call has removed a word and left another one.
C6_Witness ==
    /\ pc = "ac3_loop"
    /\ revised
    /\ \E v \in variables :
          domains[v] /= {} /\ domains[v] /= NodeConsistent([u \in variables |-> words])[v]

ArcConsistent ==
    \A x, y \in variables :
       (x /= y /\ overlaps(x, y) /= None) => SupportedWords(x, y) = domains[x]

FullPassReturned == pc = "ac3_done" /\ ac3caller = "solve"

\* C7: when the full pass of ac3 on node-consistent domains returns True,
\* every word of every domain is supported in every overlapping domain.
C7_ArcConsistentAfterAc3 ==
    (FullPassReturned /\ ac3ret = "True") => ArcConsistent

\* The full pass returned True after removing words of two domains.
C7_Witness ==
    /\ FullPassReturned
    /\ ac3ret = "True"
    /\ \E x, y \in variables :
          /\ x /= y
          /\ domains[x] /= {} /\ domains[y] /= {}
          /\ domains[x] /= NodeConsistent([u \in variables |-> words])[x]
          /\ domains[y] /= NodeConsistent([u \in variables |-> words])[y]

\* C8: ac3 returns True exactly when no domain is empty at its return.
C8_TrueIffNoEmptyDomain ==
    (pc = "ac3_done")
       => ((ac3ret = "True") <=> (\A v \in variables : domains[v] /= {}))

\* C9: when the full pass returns False, solve returns None and no word is
\* ever tentatively assigned.
C9_FailedPassNoAssignment ==
    (fullpass = "False")
       => /\ assignment = << >>
          /\ pc \in { "bt_enter", "bt_loop", "done" }
          /\ (pc = "done" => result.none)

C9_Witness ==
    /\ fullpass = "False"
    /\ pc = "done"
    /\ \E v \in variables : domains[v] /= {}

\* C10: no step removes from a domain a word of a solution, and the full
\* pass returns False only when the puzzle has no solution.
C10_PropagationSound ==
    [][ /\ (domains' /= domains)
              => \A s \in Solutions : \A v \in variables : s[v] \in domains'[v]
        /\ (pc' = "ac3_done" /\ ac3caller' = "solve" /\ ac3ret' = "False")
              => Solutions = {} ]_vars

\* The full pass removed a word although the puzzle has a solution.
C10_Witness ==
    /\ FullPassReturned
    /\ Solutions /= {}
    /\ \E v \in variables :
          domains[v] /= NodeConsistent([u \in variables |-> words])[v]

\* A call of backtrack returns None in this step: its loop ran out of values
\* (line 294) or it gave up after ac3 (line 286).
ReturnsNone ==
    /\ pc \in { "bt_loop", "ac3_done" }
    /\ stack /= << >>
    /\ stack' = Tail(stack)

\* C11: when a call of backtrack returns None, the assignment is what it
\* was when that call was entered.
C11_AssignmentRestoredOnFailure ==
    [][ ReturnsNone => assignment' = Head(stack).entry_assignment ]_vars

\* C12: within solve, when a call of backtrack returns None, every domain
\* is what it was when that call was entered.
C12_DomainsRestoredOnFailure ==
    [][ ReturnsNone => domains' = Head(stack).entry_domains ]_vars

\* A recursive call has returned None to the loop of its caller, after the
\* caller propagated over the arcs of its variable.
C12_Witness ==
    /\ pc = "bt_loop"
    /\ stack /= << >>
    /\ Head(stack).var \in DOMAIN assignment
    /\ neighbors(Head(stack).var) /= {}
    /\ \E v \in variables : Cardinality(domains[v]) > 1

\* C13: when the ac3 that backtrack calls on the arcs (neighbor, var) returns
\* False, the value is abandoned: assignment[var] is deleted, no recursive
\* call is made and the loop goes on to the next value.
C13_FailedPropagationAbandons ==
    [][ (pc = "ac3_done" /\ ac3caller = "backtrack" /\ ac3ret = "False")
          => /\ assignment' = Del(assignment, Head(stack).var)
             /\ stack' = stack
             /\ pc' = "bt_loop" ]_vars

\* C14: every domain is a subset of the word list, and no step of
\* enforce_node_consistency, revise, ac3 or backtrack adds a word to a
\* domain: each domain after a step is a subset of it before the step.
C14_DomainsOnlyShrink ==
    /\ [](\A v \in variables : domains[v] \subseteq words)
    /\ [][\A v \in variables : domains'[v] \subseteq domains[v]]_vars

\* The ac3 that backtrack called has just removed a word from a domain.
C14_Witness ==
    /\ pc = "ac3_loop"
    /\ ac3caller = "backtrack"
    /\ Len(arcs_list) < Cardinality(neighbors(Head(stack).var))
    /\ revised

\* The recursion depth of backtrack: the calls of backtrack that enclose
\* the running one (0 for the call made by solve).
RecursionDepth == Len(stack)

\* A step of ac3 that appends arcs to its queue (lines 168-170), and a step
\* that removes a word from domains[arc[0]].
Appends ==
    /\ pc = "ac3_loop"
    /\ arcs_list /= << >>
    /\ arcs_list' /= Tail(arcs_list)

Shrinks ==
    /\ domains'[Head(arcs_list)[1]] \subseteq domains[Head(arcs_list)[1]]
    /\ domains'[Head(arcs_list)[1]] /= domains[Head(arcs_list)[1]]

\* The step in which backtrack calls itself (line 289), and the dict then
\* holding more variables than at the entry of the calling call.
Recurses ==
    /\ pc = "ac3_done"
    /\ ac3caller = "backtrack"
    /\ pc' = "bt_enter"

AssignsMore ==
    /\ DOMAIN Head(stack).entry_assignment \subseteq DOMAIN assignment'
    /\ DOMAIN Head(stack).entry_assignment /= DOMAIN assignment'

\* C15: solve returns; every ac3 that starts returns; ac3 appends arcs to
\* its queue only in a step that removed a word from domains[arc[0]]; every
\* recursive call is entered with more assigned variables than its caller
\* was, and the recursion depth never exceeds the number of variables.
C15_SolveTerminates ==
    /\ <>(pc = "done")
    /\ ((pc = "ac3_loop") ~> (pc = "ac3_done"))
    /\ [](RecursionDepth <= Cardinality(variables))
    /\ [][Appends => Shrinks]_vars
    /\ [][Recurses => AssignsMore]_vars

\* solve has returned an assignment of three or more variables, found at
\* recursion depth three or more, after ac3 removed a word from the domain of
\* a variable with two neighbours and appended the arc of the other one.
C15_Witness ==
    /\ pc = "done"
    /\ ~ result.none
    /\ Cardinality(variables) >= 3
    /\ \E v \in variables :
          /\ Cardinality(neighbors(v)) >= 2
          /\ domains[v] /= NodeConsistent([u \in variables |-> words])[v]

Next ==
    \/ SolveNodeConsistency
    \/ Ac3Full
    \/ Ac3Revise
    \/ Ac3ReturnTrue
    \/ SolveBacktrack
    \/ BtComplete
    \/ BtSelect
    \/ BtAssign
    \/ BtPropagate
    \/ BtReject
    \/ BtAfterAc3
    \/ BtExhausted

Spec == Init /\ [][Next]_vars

\* solve on the two crossing slots.
SpecCross == InitCross /\ [][Next]_vars

\* solve runs in one thread with no blocking call: as long as a step of
\* the program is possible, one is taken.
SpecLive == Init /\ [][Next]_vars /\ WF_vars(Next)
====
